---- MODULE Spec2Model ----
(***************************************************************************)
(* NHL team and player data scraper (nhl_powerbi_project/main.py).         *)
(*                                                                         *)
(* main() is a sequential program; the model steps at every HTTP request   *)
(* and at the head of fetch_teams' loop.  An action that issues a request  *)
(* draws its response from a bounded set of HTTP outcomes and runs the     *)
(* code that follows it, up to the next step.                              *)
(*                                                                         *)
(* JSON objects are functions from key strings to values; an absent key is *)
(* a key outside the DOMAIN.  A value that Python may hold as None         *)
(* (dict.get without the key, a NaN cell of a DataFrame) is an option:     *)
(* None is <<>> and a present value v is <<v>>.  Nested                     *)
(* {"default": s} name objects are flattened to s.                         *)
(***************************************************************************)
EXTENDS Integers, Sequences, FiniteSets, TLC

VARIABLES
    pc,          \* position of main(): the next request to issue, or an end state
    err,         \* the uncaught exception that ended the run ("" when none)
    console,     \* last status line printed by main()
    last,        \* <<endpoint, ok>> of the latest fetch_json call (ok = not None)
    data,        \* fetch_teams: the standings response
    ei,          \* fetch_teams: index of the standings entry being processed
    team_data,   \* fetch_teams: the dict being built for entry ei
    teams,       \* fetch_teams: rows appended so far
    teams_df,    \* main: the table returned by fetch_teams
    ti,          \* build_rosters_and_stats: index of the team row being processed
    players,     \* build_rosters_and_stats: roster of team ti
    pj,          \* build_rosters_and_stats: index of the player being processed
    rosters,     \* build_rosters_and_stats: accumulated roster rows
    all_stats,   \* build_rosters_and_stats: accumulated stat rows
    profile,     \* fetch_player_stats: the latest player-profile response
    dir_exists,  \* whether DATA_FOLDER exists
    files        \* the files written by export_to_csv: name -> table

vars == <<pc, err, console, last, data, ei, team_data, teams, teams_df, ti,
          players, pj, rosters, all_stats, profile, dir_exists, files>>

(***************************************************************************)
(* Bounds                                                                  *)
(***************************************************************************)
MaxTeams == 2      \* standings entries in one standings payload
MaxSeasons == 2    \* seasonTotals entries in one player profile

(***************************************************************************)
(* Python values                                                           *)
(***************************************************************************)
None == <<>>
Some(v) == <<v>>
EmptyDict == <<>>

\* dict.get(key): the value, or None when the key is absent
Get(d, k) == IF k \in DOMAIN d THEN Some(d[k]) ELSE None

\* dict.get(key, default)
GetOr(d, k, default) == IF k \in DOMAIN d THEN d[k] ELSE default

\* dict.update(new): the keys of new are set, the others kept
Update(d, new) == new @@ d

\* pandas.DataFrame(list of dicts): the columns are the union of the rows'
\* keys, and a row lacking a column holds NaN there
NaN == None
DataFrame(rows) ==
    LET cols == UNION {DOMAIN rows[i] : i \in 1..Len(rows)}
    IN  [columns |-> cols,
         rows |-> [i \in 1..Len(rows) |->
                     [c \in cols |-> IF c \in DOMAIN rows[i] THEN rows[i][c] ELSE NaN]]]

\* DataFrame.empty: no rows or no columns
IsEmpty(df) == Len(df.rows) = 0 \/ df.columns = {}

(***************************************************************************)
(* fetch_json: an HTTP outcome becomes parsed JSON or None                 *)
(***************************************************************************)
HttpOk(json) == [status |-> "ok", json |-> json]
HttpError == [status |-> "error", json |-> EmptyDict]      \* transport / non-2xx
HttpNotJson == [status |-> "notjson", json |-> EmptyDict]  \* body is not JSON
HttpFailures == {HttpError, HttpNotJson}

\* [ok |-> FALSE] is the None that the except branch returns
FetchJson(http) ==
    IF http.status = "ok" THEN [ok |-> TRUE, json |-> http.json]
    ELSE [ok |-> FALSE, json |-> EmptyDict]

\* Python truthiness of a fetch_json result: None and {} are falsy
Truthy(r) == r.ok /\ DOMAIN r.json # {}

(***************************************************************************)
(* fetch_teams                                                             *)
(***************************************************************************)
\* The exception raised while building team_data from a standings entry:
\* entry["teamAbbrev"] and entry["teamName"] are subscripted, and the
\* subtraction has None as an operand when either wins field is absent.
TeamDataError(entry) ==
    IF "teamAbbrev" \notin DOMAIN entry \/ "teamName" \notin DOMAIN entry
    THEN "KeyError: entry"
    ELSE IF "regulationPlusOtWins" \notin DOMAIN entry
            \/ "regulationWins" \notin DOMAIN entry
         THEN "TypeError: reg_ot_wins"
         ELSE ""

\* "reg_ot_wins": entry.get("regulationPlusOtWins") - entry.get("regulationWins")
RegOtWins(entry) == entry["regulationPlusOtWins"] - entry["regulationWins"]

\* The team_data dict literal, for an entry on which it does not raise
TeamData(entry) ==
    [team_abbr |-> entry["teamAbbrev"],
     team_name |-> entry["teamName"],
     wins |-> Get(entry, "wins"),
     regulation_wins |-> Get(entry, "regulationWins"),
     reg_ot_wins |-> Some(RegOtWins(entry))]

\* The fields merged from the first row of each supplementary payload
PowerPlayFields(row) ==
    [power_play_pct |-> Get(row, "powerPlayPct"),
     power_play_goals |-> Get(row, "powerPlayGoalsFor")]
GoalsByPeriodFields(row) == [period1GoalsFor |-> Get(row, "period1GoalsFor")]
FaceoffFields(row) == [faceoff_win_pct |-> Get(row, "faceoffWinPct")]

\* if pp_data and pp_data["data"]: the subscript raises when a truthy
\* payload has no "data" key
PowerPlayError(r) ==
    IF Truthy(r) /\ "data" \notin DOMAIN r.json THEN "KeyError: data" ELSE ""
PowerPlayMerge(td, r) ==
    IF Truthy(r) /\ Len(r.json["data"]) > 0
    THEN Update(td, PowerPlayFields(r.json["data"][1]))
    ELSE td

\* if gbp and gbp.get("data"): a missing key reads as None, which is falsy
GoalsByPeriodMerge(td, r) ==
    IF Truthy(r) /\ Len(GetOr(r.json, "data", <<>>)) > 0
    THEN Update(td, GoalsByPeriodFields(r.json["data"][1]))
    ELSE td

\* if foz and foz.get("data")
FaceoffMerge(td, r) ==
    IF Truthy(r) /\ Len(GetOr(r.json, "data", <<>>)) > 0
    THEN Update(td, FaceoffFields(r.json["data"][1]))
    ELSE td

\* data.get("standings", []) of a truthy standings response
StandingsOf(r) == IF Truthy(r) THEN GetOr(r.json, "standings", <<>>) ELSE <<>>

(***************************************************************************)
(* fetch_team_roster                                                       *)
(***************************************************************************)
\* (mutant) the groups concatenated goalies first
TeamRosterGoaliesFirst(r) ==
    IF ~Truthy(r) THEN <<>>
    ELSE GetOr(r.json, "goalies", <<>>) \o GetOr(r.json, "defensemen", <<>>)
         \o GetOr(r.json, "forwards", <<>>)

\* The flat player list: forwards, then defensemen, then goalies; [] when
\* the response is None or {}
TeamRoster(r) ==
    IF ~Truthy(r) THEN <<>>
    ELSE GetOr(r.json, "forwards", <<>>) \o GetOr(r.json, "defensemen", <<>>)
         \o GetOr(r.json, "goalies", <<>>)

(***************************************************************************)
(* fetch_player_stats                                                      *)
(***************************************************************************)
\* {2: "regular", 3: "playoffs"}.get(game_type, "other")
SeasonType(game_type) ==
    IF game_type = Some(2) THEN "regular"
    ELSE IF game_type = Some(3) THEN "playoffs"
    ELSE "other"

\* season.update({...}): the season entry itself, tagged
SeasonRow(season, player_id, full_name, position) ==
    Update(season,
           [player_id |-> player_id,
            player |-> full_name,
            team |-> Get(season, "teamName"),
            type |-> SeasonType(Get(season, "gameTypeId")),
            season_scope |-> "season",
            positionCode |-> position])

\* (mutant) the career block tagged like the season block, with the
\* entry's own teamName
CareerRowOwnTeam(career, player_id, full_name, team_name, position, label) ==
    Update(career,
           [player_id |-> player_id,
            player |-> full_name,
            team |-> Get(career, "teamName"),
            type |-> label,
            season_scope |-> "career",
            positionCode |-> position])

\* career.update({...}): the career totals, tagged with the roster's team
CareerRow(career, player_id, full_name, team_name, position, label) ==
    Update(career,
           [player_id |-> player_id,
            player |-> full_name,
            team |-> Some(team_name),
            type |-> label,
            season_scope |-> "career",
            positionCode |-> position])

\* (mutant) the career keys visited playoffs first
CareerKeysPlayoffsFirst == << <<"playoffs", "playoffs">>, <<"regularSeason", "regular">> >>

\* The two career keys with their labels, in the order the loop visits them
CareerKeys == << <<"regularSeason", "regular">>, <<"playoffs", "playoffs">> >>

\* if career: the key is present and its value is a non-empty dict
CareerRows(json, player_id, full_name, team_name, position) ==
    LET totals == GetOr(json, "careerTotals", EmptyDict)
        one(k) == IF CareerKeys[k][1] \in DOMAIN totals
                     /\ DOMAIN totals[CareerKeys[k][1]] # {}
                  THEN << CareerRow(totals[CareerKeys[k][1]], player_id, full_name,
                                    team_name, position, CareerKeys[k][2]) >>
                  ELSE <<>>
    IN  one(1) \o one(2)

SeasonRows(json, player_id, full_name, position) ==
    LET seasons == GetOr(json, "seasonTotals", <<>>)
    IN  [i \in 1..Len(seasons) |-> SeasonRow(seasons[i], player_id, full_name, position)]

\* (mutant) a failed profile fetch yields a placeholder row instead of no row
PlayerStatsPlaceholder(r, player_id, full_name, team_name, position) ==
    IF ~Truthy(r)
    THEN << CareerRow(EmptyDict, player_id, full_name, team_name, position, "regular") >>
    ELSE SeasonRows(r.json, player_id, full_name, position)
         \o CareerRows(r.json, player_id, full_name, team_name, position)

\* The rows fetch_player_stats returns for a profile response
PlayerStats(r, player_id, full_name, team_name, position) ==
    IF ~Truthy(r) THEN <<>>
    ELSE SeasonRows(r.json, player_id, full_name, position)
         \o CareerRows(r.json, player_id, full_name, team_name, position)

(***************************************************************************)
(* build_rosters_and_stats                                                 *)
(***************************************************************************)
\* player["id"], player["firstName"], player["lastName"] and
\* player["positionCode"] are subscripted
PlayerError(player) ==
    IF {"id", "firstName", "lastName", "positionCode"} \subseteq DOMAIN player
    THEN "" ELSE "KeyError: player"

\* f"{first} {last}"
FullName(player) == player["firstName"] \o " " \o player["lastName"]

\* The dict appended to rosters
RosterRow(player, team_name, team_abbr) ==
    [player_id |-> player["id"],
     player |-> FullName(player),
     positionCode |-> player["positionCode"],
     team |-> team_name,
     team_abbr |-> team_abbr,
     headshot |-> Get(player, "headshot")]

(***************************************************************************)
(* export_to_csv                                                           *)
(***************************************************************************)
\* df.to_csv(filename, index=False): a header line of the columns, then one
\* line per row
ToCsv(df) == [header |-> df.columns, lines |-> df.rows]

OutputFiles == {"teams.csv", "rosters.csv", "player_stats.csv"}

(***************************************************************************)
(* Responses of the NHL API                                                *)
(***************************************************************************)
Abbrs == <<"TOR", "MTL", "BOS", "NYR">>
Names == <<"Maple Leafs", "Canadiens", "Bruins", "Rangers">>

Without(d, k) == [x \in DOMAIN d \ {k} |-> d[x]]

\* One team's standings entry; kind names the field the entry lacks
FullEntry(t) ==
    [teamAbbrev |-> Abbrs[t], teamName |-> Names[t], wins |-> 50 + t,
     regulationWins |-> 29 + t, regulationPlusOtWins |-> 38 + 2 * t]
Entry(t, kind) ==
    IF kind = "full" THEN FullEntry(t) ELSE Without(FullEntry(t), kind)

\* The All... sets are every payload shape of an endpoint and drive the
\* specifications of one function; the Run... sets are the representative
\* payloads the specification of the whole run draws from.
AllEntryKinds == {"full", "wins", "regulationWins", "regulationPlusOtWins", "teamAbbrev"}
RunEntryKinds == {"full", "regulationWins"}

\* Standings collections of at most MaxTeams entries of distinct teams, by
\* ascending or by descending team number
StandingsLists(kinds) ==
    UNION { { [i \in 1..n |-> Entry(t[i], k[i])] :
                t \in {f \in [1..n -> 1..MaxTeams] :
                         \/ \A a, b \in 1..n : a < b => f[a] < f[b]
                         \/ \A a, b \in 1..n : a < b => f[a] > f[b]},
                k \in [1..n -> kinds] } :
            n \in 0..MaxTeams }

StandingsHttp(kinds) ==
    HttpFailures \cup {HttpOk(EmptyDict), HttpOk([wildCardIndicator |-> TRUE])}
    \cup {HttpOk([standings |-> s]) : s \in StandingsLists(kinds)}

\* Payloads of the three stats-query endpoints
NoDataKey == [total |-> 0]
NoRows == [data |-> <<>>, total |-> 0]
OneRow(row) == [data |-> <<row>>, total |-> 1]

PowerPlayRow == [powerPlayPct |-> 25, powerPlayGoalsFor |-> 60]
GoalsByPeriodRow == [period1GoalsFor |-> 70]
FaceoffRow == [faceoffWinPct |-> 51]

AllPowerPlayHttp ==
    HttpFailures \cup {HttpOk(EmptyDict), HttpOk(NoDataKey), HttpOk(NoRows)}
    \cup {HttpOk(OneRow(row)) :
            row \in {PowerPlayRow, Without(PowerPlayRow, "powerPlayPct"),
                     Without(PowerPlayRow, "powerPlayGoalsFor")}}
AllGoalsByPeriodHttp ==
    HttpFailures \cup {HttpOk(NoDataKey), HttpOk(NoRows), HttpOk(OneRow(GoalsByPeriodRow)),
                       HttpOk(OneRow([seasonId |-> 20242025]))}
AllFaceoffHttp ==
    HttpFailures \cup {HttpOk(NoDataKey), HttpOk(NoRows), HttpOk(OneRow(FaceoffRow)),
                       HttpOk(OneRow([seasonId |-> 20242025]))}

RunPowerPlayHttp == {HttpError, HttpOk(NoDataKey), HttpOk(OneRow(PowerPlayRow))}
RunGoalsByPeriodHttp == {HttpOk(OneRow(GoalsByPeriodRow))}
RunFaceoffHttp == {HttpOk(OneRow(FaceoffRow))}

\* Roster payloads of team number t.  Player g, i is the i-th player of
\* position group g (1 forwards, 2 defensemen, 3 goalies).
TeamNo(abbr) == CHOOSE t \in 1..Len(Abbrs) : Abbrs[t] = abbr
Groups == <<"Fwd", "Def", "Gol">>
Positions == <<"C", "D", "G">>
Player(t, g, i) ==
    [id |-> 100 * t + 10 * g + i, firstName |-> Groups[g], lastName |-> Abbrs[t],
     positionCode |-> Positions[g], headshot |-> "mug.png"]

RosterHttpOf(t) ==
    {HttpError,
     HttpOk(EmptyDict),
     HttpOk([forwards |-> <<Player(t, 1, 1)>>,
             defensemen |-> <<Without(Player(t, 2, 1), "headshot")>>,
             goalies |-> <<Player(t, 3, 1)>>]),
     HttpOk([forwards |-> <<Player(t, 1, 1), Player(t, 1, 2)>>]),
     HttpOk([goalies |-> <<Without(Player(t, 3, 1), "id")>>])}
RunRosterHttp == [t \in 1..Len(Abbrs) |-> RosterHttpOf(t)]

\* Player profile payloads
SeasonEntries ==
    {[goals |-> 5], [goals |-> 5, teamName |-> "Marlies"]}
    \cup {[goals |-> 5, gameTypeId |-> g] : g \in 1..3}
    \cup {[goals |-> 5, gameTypeId |-> g, teamName |-> "Marlies"] : g \in 1..3}
SeasonLists ==
    UNION {[1..n -> SeasonEntries] : n \in 0..MaxSeasons}
CareerValues == {EmptyDict, [goals |-> 100]}
CareerTotals ==
    {EmptyDict}
    \cup {[regularSeason |-> r] : r \in CareerValues}
    \cup {[playoffs |-> p] : p \in CareerValues}
    \cup {[regularSeason |-> r, playoffs |-> p] : r \in CareerValues, p \in CareerValues}

AllProfileHttp ==
    HttpFailures \cup {HttpOk(EmptyDict)}
    \cup {HttpOk([playerId |-> 1, careerTotals |-> c]) : c \in CareerTotals}
    \cup {HttpOk([playerId |-> 1, seasonTotals |-> s]) : s \in SeasonLists}
    \cup {HttpOk([playerId |-> 1, seasonTotals |-> s, careerTotals |-> c]) :
            s \in SeasonLists, c \in CareerTotals}

RunProfileHttp ==
    {HttpError,
     HttpOk([playerId |-> 1,
             seasonTotals |-> <<[goals |-> 5, gameTypeId |-> 2, teamName |-> "Marlies"],
                                [goals |-> 5, gameTypeId |-> 3, teamName |-> Names[1]]>>,
             careerTotals |-> [regularSeason |-> [goals |-> 100],
                               playoffs |-> [goals |-> 100]]])}

(***************************************************************************)
(* The run                                                                 *)
(***************************************************************************)
NoResponse == [ok |-> FALSE, json |-> EmptyDict]

Init ==
    /\ pc = "start"
    /\ err = ""
    /\ console = "Starting NHL Data Fetch..."
    /\ last = <<"", FALSE>>
    /\ data = NoResponse
    /\ ei = 0
    /\ team_data = EmptyDict
    /\ teams = <<>>
    /\ teams_df = DataFrame(<<>>)
    /\ ti = 0
    /\ players = <<>>
    /\ pj = 0
    /\ rosters = <<>>
    /\ all_stats = <<>>
    /\ profile = NoResponse
    /\ dir_exists \in BOOLEAN
    /\ files = EmptyDict

\* An exception nothing catches: main() ends with a traceback
Raise(e) ==
    /\ pc' = "crashed"
    /\ err' = e

\* (mutant) main without the early return: build_rosters_and_stats loops
\* over an empty table and the export follows
TeamsReturnedNoAbort(df) ==
    /\ teams_df' = df
    /\ console' = console
    /\ IF IsEmpty(df)
       THEN /\ pc' = "export"
            /\ ti' = ti
       ELSE /\ pc' = "roster"
            /\ ti' = 1

\* main, after fetch_teams returned df: abort on an empty table, else start
\* build_rosters_and_stats
TeamsReturned(df) ==
    /\ teams_df' = df
    /\ IF IsEmpty(df)
       THEN /\ pc' = "aborted"
            /\ console' = "[ERROR] No teams returned."
            /\ ti' = ti
       ELSE /\ pc' = "roster"
            /\ console' = console
            /\ ti' = 1

\* fetch_teams: the standings request; a falsy response returns an empty
\* table at once, an empty collection after a loop of no iterations
FetchStandings(Https) ==
    /\ pc = "start"
    /\ \E http \in Https :
         LET r == FetchJson(http) IN
         /\ data' = r
         /\ last' = <<"standings", r.ok>>
         /\ IF Len(StandingsOf(r)) = 0
            THEN /\ TeamsReturned(DataFrame(<<>>))
                 /\ ei' = ei
            ELSE /\ pc' = "entry"
                 /\ ei' = 1
                 /\ UNCHANGED <<teams_df, console, ti>>
    /\ UNCHANGED <<err, team_data, teams, players, pj, rosters, all_stats, profile,
                   dir_exists, files>>

\* fetch_teams: the team_data literal of entry ei
BuildTeamEntry ==
    /\ pc = "entry"
    /\ LET entry == StandingsOf(data)[ei] IN
       IF TeamDataError(entry) # ""
       THEN /\ Raise(TeamDataError(entry))
            /\ team_data' = team_data
       ELSE /\ team_data' = TeamData(entry)
            /\ pc' = "pp"
            /\ err' = err
    /\ UNCHANGED <<console, last, data, ei, teams, teams_df, ti, players, pj, rosters,
                   all_stats, profile, dir_exists, files>>

\* fetch_teams: the power-play request and its merge
FetchPowerPlay(Https) ==
    /\ pc = "pp"
    /\ \E http \in Https :
         LET r == FetchJson(http) IN
         /\ last' = <<"powerplay", r.ok>>
         /\ IF PowerPlayError(r) # ""
            THEN /\ Raise(PowerPlayError(r))
                 /\ team_data' = team_data
            ELSE /\ team_data' = PowerPlayMerge(team_data, r)
                 /\ pc' = "gbp"
                 /\ err' = err
    /\ UNCHANGED <<console, data, ei, teams, teams_df, ti, players, pj, rosters,
                   all_stats, profile, dir_exists, files>>

\* fetch_teams: the goals-by-period request and its merge
FetchGoalsByPeriod(Https) ==
    /\ pc = "gbp"
    /\ \E http \in Https :
         LET r == FetchJson(http) IN
         /\ last' = <<"goalsbyperiod", r.ok>>
         /\ team_data' = GoalsByPeriodMerge(team_data, r)
    /\ pc' = "foz"
    /\ UNCHANGED <<err, console, data, ei, teams, teams_df, ti, players, pj, rosters,
                   all_stats, profile, dir_exists, files>>

\* fetch_teams: the faceoff request and its merge, teams.append(team_data),
\* then the next entry, or the return to main after the last one
FetchFaceoff(Https) ==
    /\ pc = "foz"
    /\ \E http \in Https :
         LET r == FetchJson(http) IN
         /\ last' = <<"faceoffpercentages", r.ok>>
         /\ team_data' = FaceoffMerge(team_data, r)
    /\ teams' = Append(teams, team_data')
    /\ IF ei < Len(StandingsOf(data))
       THEN /\ ei' = ei + 1
            /\ pc' = "entry"
            /\ UNCHANGED <<teams_df, console, ti>>
       ELSE /\ ei' = ei
            /\ TeamsReturned(DataFrame(teams'))
    /\ UNCHANGED <<err, data, players, pj, rosters, all_stats, profile, dir_exists, files>>

\* (mutant) the loop over the team rows ends after its first iteration
NextTeamStops ==
    /\ ti' = ti
    /\ pc' = "export"

\* build_rosters_and_stats: after the last player of team ti, sleep and go
\* to the next row of teams_df, or return after the last one
NextTeam ==
    IF ti < Len(teams_df.rows)
    THEN /\ ti' = ti + 1
         /\ pc' = "roster"
    ELSE /\ ti' = ti
         /\ pc' = "export"

\* build_rosters_and_stats: the roster request of team ti; Https gives the
\* possible responses by team number
FetchRoster(Https) ==
    /\ pc = "roster"
    /\ \E http \in Https[TeamNo(teams_df.rows[ti]["team_abbr"])] :
         LET r == FetchJson(http) IN
         /\ last' = <<"roster", r.ok>>
         /\ players' = TeamRoster(r)
    /\ IF players' = <<>>
       THEN /\ NextTeam
            /\ pj' = pj
       ELSE /\ pc' = "player"
            /\ pj' = 1
            /\ ti' = ti
    /\ UNCHANGED <<err, console, data, ei, team_data, teams, teams_df, rosters, all_stats,
                   profile, dir_exists, files>>

\* build_rosters_and_stats: one iteration of the player loop, with the
\* player-profile request of fetch_player_stats
ProcessPlayer(Https) ==
    /\ pc = "player"
    /\ LET team == teams_df.rows[ti]
           player == players[pj]
       IN  IF PlayerError(player) # ""
           THEN /\ Raise(PlayerError(player))
                /\ UNCHANGED <<last, ti, pj, rosters, all_stats, profile>>
           ELSE /\ \E http \in Https :
                     LET r == FetchJson(http) IN
                     /\ last' = <<"player", r.ok>>
                     /\ profile' = r
                     /\ all_stats' = all_stats \o
                            PlayerStats(r, player["id"], FullName(player),
                                        team["team_name"], player["positionCode"])
                /\ rosters' = Append(rosters,
                                     RosterRow(player, team["team_name"], team["team_abbr"]))
                /\ IF pj < Len(players)
                   THEN /\ pj' = pj + 1
                        /\ UNCHANGED <<pc, ti>>
                   ELSE /\ pj' = pj
                        /\ NextTeam
                /\ err' = err
    /\ UNCHANGED <<console, data, ei, team_data, teams, teams_df, players, dir_exists, files>>

\* main: build_rosters_and_stats returned its two tables; make the folder
\* when it is missing and write the three files
Export ==
    /\ pc = "export"
    /\ dir_exists' = TRUE
    /\ files' = [f \in OutputFiles |->
                   IF f = "teams.csv" THEN ToCsv(teams_df)
                   ELSE IF f = "rosters.csv" THEN ToCsv(DataFrame(rosters))
                   ELSE ToCsv(DataFrame(all_stats))]
    /\ console' = "Success!"
    /\ pc' = "done"
    /\ UNCHANGED <<err, last, data, ei, team_data, teams, teams_df, ti, players, pj,
                   rosters, all_stats, profile>>

Next ==
    \/ FetchStandings(StandingsHttp(RunEntryKinds))
    \/ BuildTeamEntry
    \/ FetchPowerPlay(RunPowerPlayHttp)
    \/ FetchGoalsByPeriod(RunGoalsByPeriodHttp)
    \/ FetchFaceoff(RunFaceoffHttp)
    \/ FetchRoster(RunRosterHttp)
    \/ ProcessPlayer(RunProfileHttp)
    \/ Export

Spec == Init /\ [][Next]_vars

\* fetch_teams alone, over every standings entry and supplementary payload
NextTeams ==
    \/ FetchStandings(StandingsHttp(AllEntryKinds))
    \/ BuildTeamEntry
    \/ FetchPowerPlay(AllPowerPlayHttp)
    \/ FetchGoalsByPeriod(AllGoalsByPeriodHttp)
    \/ FetchFaceoff(AllFaceoffHttp)

SpecTeams == Init /\ [][NextTeams]_vars

\* fetch_player_stats alone, called for the first forward of team 1, over
\* every profile payload
CallFetchPlayerStats ==
    /\ pc = "start"
    /\ \E http \in AllProfileHttp :
         LET r == FetchJson(http)
             player == Player(1, 1, 1)
         IN  /\ last' = <<"player", r.ok>>
             /\ profile' = r
             /\ all_stats' = PlayerStats(r, player["id"], FullName(player), Names[1],
                                         player["positionCode"])
    /\ pc' = "returned"
    /\ UNCHANGED <<err, console, data, ei, team_data, teams, teams_df, ti, players, pj,
                   rosters, dir_exists, files>>

NextStats == CallFetchPlayerStats

SpecStats == Init /\ [][NextStats]_vars

(***************************************************************************)
(* Properties                                                              *)
(***************************************************************************)
IsPrefix(s, t) == Len(s) <= Len(t) /\ SubSeq(t, 1, Len(s)) = s

InFetchTeams == pc \in {"start", "entry", "pp", "gbp", "foz"}

\* C1: once the standings fetch has yielded at least one entry, no response
\* of a later fetch (supplementary stats, roster, player profile) ends the
\* run before the export: the run never dies on an exception raised on
\* such a response.
C1_LaterFetchNeverEndsRun ==
    ~(pc = "crashed" /\ err \in {"KeyError: data", "KeyError: player"})

\* C2: the reg_ot_wins of every row built is regulationPlusOtWins minus
\* regulationWins of its standings entry, and computing it never raises.
C2_RegOtWinsNeverRaises ==
    /\ \A i \in 1..Len(teams) :
         teams[i]["reg_ot_wins"] =
           Some(StandingsOf(data)[i]["regulationPlusOtWins"]
                - StandingsOf(data)[i]["regulationWins"])
    /\ err # "TypeError: reg_ot_wins"

\* C3: when the standings fetch fails or yields no entry, main reports the
\* error and stops: no request but the standings one was issued, no roster
\* or stat row exists, no file is written, and the step that aborts leaves
\* the output directory as it was.
C3_ZeroTeamsAbort ==
    /\ [](pc # "start" /\ Len(StandingsOf(data)) = 0 =>
            /\ pc = "aborted"
            /\ console = "[ERROR] No teams returned."
            /\ last[1] = "standings"
            /\ rosters = <<>> /\ all_stats = <<>>
            /\ files = EmptyDict)
    /\ [][pc' = "aborted" => dir_exists' = dir_exists]_vars

C3_Witness ==
    /\ pc = "aborted"
    /\ data.ok /\ "standings" \in DOMAIN data.json
    /\ ~dir_exists

\* C4: for a standings payload of N >= 1 entries, once fetch_teams is over
\* main holds a team table of exactly N rows, row i built from entry i.
C4_OneRowPerEntry ==
    (~InFetchTeams /\ Len(StandingsOf(data)) > 0) =>
        /\ Len(teams_df.rows) = Len(StandingsOf(data))
        /\ \A i \in 1..Len(teams_df.rows) :
             /\ teams_df.rows[i]["team_abbr"] = StandingsOf(data)[i]["teamAbbrev"]
             /\ teams_df.rows[i]["team_name"] = StandingsOf(data)[i]["teamName"]
             /\ teams_df.rows[i]["wins"] = Get(StandingsOf(data)[i], "wins")

\* C5: fetch_player_stats returns one season row per seasonTotals entry, in
\* source order, typed by gameTypeId (2 regular, 3 playoffs, else other),
\* then the career rows: regular before playoffs, one for each career key
\* that is present (with totals in it), and no other row.  Game types 2, 3
\* and both career totals give season/regular, season/playoffs,
\* career/regular, career/playoffs.
C5_Tags(rows) == [i \in 1..Len(rows) |-> <<rows[i]["season_scope"], rows[i]["type"]>>]
C5_StatRowsInOrder ==
    pc = "returned" /\ Truthy(profile) =>
        LET seasons == GetOr(profile.json, "seasonTotals", <<>>)
            totals == GetOr(profile.json, "careerTotals", EmptyDict)
            n == Len(seasons)
            has(k) == k \in DOMAIN totals /\ DOMAIN totals[k] # {}
            career == SubSeq(C5_Tags(all_stats), n + 1, Len(all_stats))
        IN  /\ Len(all_stats) >= n
            /\ \A i \in 1..n :
                 /\ all_stats[i]["season_scope"] = "season"
                 /\ all_stats[i]["type"] =
                      (IF "gameTypeId" \notin DOMAIN seasons[i] THEN "other"
                       ELSE IF seasons[i]["gameTypeId"] = 2 THEN "regular"
                       ELSE IF seasons[i]["gameTypeId"] = 3 THEN "playoffs"
                       ELSE "other")
                 /\ \A k \in DOMAIN seasons[i] : all_stats[i][k] = seasons[i][k]
            /\ career = (IF has("regularSeason") THEN <<<<"career", "regular">>>> ELSE <<>>)
                        \o (IF has("playoffs") THEN <<<<"career", "playoffs">>>> ELSE <<>>)
            /\ \A i \in n + 1..Len(all_stats) :
                 all_stats[i]["goals"] =
                   totals[IF all_stats[i]["type"] = "regular" THEN "regularSeason"
                          ELSE "playoffs"]["goals"]

C5_Witness ==
    /\ pc = "returned"
    /\ C5_Tags(all_stats) = << <<"season", "regular">>, <<"season", "playoffs">>,
                               <<"career", "regular">>, <<"career", "playoffs">> >>

\* C6: the step whose roster fetch fails adds no roster row and no stat
\* row, issues no player-profile request, and goes on to the next row of the
\* team table (to the export after the last one).
C6_FailedRosterSkipsTeam ==
    [][(pc = "roster" /\ last' = <<"roster", FALSE>>) =>
          /\ rosters' = rosters
          /\ all_stats' = all_stats
          /\ profile' = profile
          /\ IF ti < Len(teams_df.rows)
             THEN pc' = "roster" /\ ti' = ti + 1
             ELSE pc' = "export"]_vars

C6_Witness ==
    /\ pc = "roster" /\ ti = 2
    /\ last = <<"roster", FALSE>>
    /\ rosters = <<>> /\ all_stats = <<>>

\* C7: the step whose player-profile fetch fails adds no stat row, appends
\* the player's roster row, and goes on to the next player (to the next
\* team, or the export, after the last one).  A step that raises on the
\* player's own keys issues no request.
C7_FailedProfileKeepsRosterRow ==
    [][(pc = "player" /\ pc' # "crashed" /\ last' = <<"player", FALSE>>) =>
          /\ all_stats' = all_stats
          /\ Len(rosters') = Len(rosters) + 1
          /\ IsPrefix(rosters, rosters')
          /\ rosters'[Len(rosters')]["player_id"] = players[pj]["id"]
          /\ rosters'[Len(rosters')]["team_abbr"] = teams_df.rows[ti]["team_abbr"]
          /\ IF pj < Len(players)
             THEN pc' = "player" /\ pj' = pj + 1 /\ ti' = ti
             ELSE pc' \in {"roster", "export"}]_vars

C7_Witness ==
    /\ pc = "player" /\ pj = 2
    /\ last = <<"player", FALSE>>
    /\ Len(rosters) = 1 /\ all_stats = <<>>

\* C8: the exported team table has every supplementary column, whatever
\* the supplementary fetches returned.
SupplementaryColumns ==
    {"power_play_pct", "power_play_goals", "period1GoalsFor", "faceoff_win_pct"}
C8_SupplementaryColumnsPresent ==
    pc = "done" => SupplementaryColumns \subseteq files["teams.csv"].header

\* C9: rows of the roster table are in traversal order (team-table order,
\* then forwards, defensemen, goalies, each group in payload order, which
\* the payloads number upwards), rows of the stats table follow the roster
\* rows of their players with season rows before career rows, and both
\* tables only grow by appending.
TeamPos(abbr) == CHOOSE i \in 1..Len(teams_df.rows) : teams_df.rows[i]["team_abbr"] = abbr
GroupRank(position) == CHOOSE g \in 1..Len(Positions) : Positions[g] = position
RosterPos(player_id) == CHOOSE i \in 1..Len(rosters) : rosters[i]["player_id"] = player_id
C9_RosterBefore(a, b) ==
    \/ TeamPos(a["team_abbr"]) < TeamPos(b["team_abbr"])
    \/ /\ a["team_abbr"] = b["team_abbr"]
       /\ \/ GroupRank(a["positionCode"]) < GroupRank(b["positionCode"])
          \/ /\ a["positionCode"] = b["positionCode"]
             /\ a["player_id"] < b["player_id"]
C9_StatsBefore(a, b) ==
    \/ RosterPos(a["player_id"]) < RosterPos(b["player_id"])
    \/ /\ a["player_id"] = b["player_id"]
       /\ ~(a["season_scope"] = "career" /\ b["season_scope"] = "season")
C9_RowsInTraversalOrder ==
    /\ [](/\ \A i, j \in 1..Len(rosters) : i < j => C9_RosterBefore(rosters[i], rosters[j])
          /\ \A i \in 1..Len(all_stats) :
               \E k \in 1..Len(rosters) : rosters[k]["player_id"] = all_stats[i]["player_id"]
          /\ \A i, j \in 1..Len(all_stats) :
               i < j => C9_StatsBefore(all_stats[i], all_stats[j]))
    /\ [][IsPrefix(rosters, rosters') /\ IsPrefix(all_stats, all_stats')]_vars

C9_Witness ==
    /\ pc = "done"
    /\ Len(teams_df.rows) = 2
    /\ Len(rosters) = 5
    /\ rosters[1]["team_abbr"] # rosters[5]["team_abbr"]
    /\ Len(all_stats) = 8

\* C10: every roster row carries the abbreviation and the name of one row
\* of the team table, and every career-scope stat row carries the name of a
\* team-table row.
C10_TeamKeysFromTeamTable ==
    /\ \A i \in 1..Len(rosters) :
         \E t \in 1..Len(teams_df.rows) :
           /\ teams_df.rows[t]["team_abbr"] = rosters[i]["team_abbr"]
           /\ teams_df.rows[t]["team_name"] = rosters[i]["team"]
    /\ \A i \in 1..Len(all_stats) :
         all_stats[i]["season_scope"] = "career" =>
           \E t \in 1..Len(teams_df.rows) :
             Some(teams_df.rows[t]["team_name"]) = all_stats[i]["team"]

C10_Witness ==
    /\ Len(all_stats) = 4
    /\ all_stats[1]["season_scope"] = "season"
    /\ \A t \in 1..Len(teams_df.rows) :
         Some(teams_df.rows[t]["team_name"]) # all_stats[1]["team"]
    /\ all_stats[4]["season_scope"] = "career"

====
